---- MODULE Spec2Model ----
(***************************************************************************)
(* rsssubsbot: a Telegram bot that polls RSS feeds and forwards new        *)
(* articles to the chats subscribed to them.                               *)
(*                                                                         *)
(* The model follows src/main.go.  Where the earlier revision of the same  *)
(* file (src/unnamed/part_000) differs, the differing step has a second    *)
(* definition whose name ends in Old, used by SpecOld.                     *)
(*                                                                         *)
(* Go strings are sequences of character codes, so that ToLower, Contains, *)
(* concatenation and the byte-wise string order are computed, not assumed. *)
(***************************************************************************)
EXTENDS Integers, Sequences, FiniteSets, TLC

VARIABLES
    feeds,      \* Server.Feeds: url -> reference to a Feed object (DOMAIN = keys)
    heap,       \* the Feed objects allocated so far: reference -> [Chats, Title]
    seens,      \* Server.Seens: chat id -> set of ArticleKey (DOMAIN = non-nil sets)
    now,        \* time.Now(), in minutes
    mpc,        \* main goroutine: "wait" (<-sigs), "exited" (main returned);
                \* "panic" when a goroutine's panic has ended the process
    tpc,        \* timer goroutine: "call", "update", "export", "tick"
    cyc,        \* the calls of update(), in the order they began
    tasks,      \* per call of update(): url -> the per-feed goroutine
    sends,      \* per call of update(): the content of the buffered channel
    sender,     \* per call of update(): the goroutine ranging over sends
    sent,       \* per call of update(): per chat, the messages handed to bot.Send
    nfalse,     \* history: <<cid, key>> -> number of MarkSeen calls that returned false
    covered,    \* history: the calls of update() that had returned when Export ran
    adds,       \* the goroutines started by "go s.Feeds.Add(url, cid)"
    fetches,    \* history: number of ParseURL calls made by Feeds.New
    file        \* the object rsssubsbot.json of the bucket: <<>> or <<its content>>

vars == <<feeds, heap, seens, now, mpc, tpc, cyc, tasks, sends, sender, sent,
          nfalse, covered, adds, fetches, file>>

(***************************************************************************)
(* Bounds of the model.                                                    *)
(***************************************************************************)
MaxCycles == 2      \* calls of update() in one behaviour
MaxTasks == 2       \* per-feed goroutines started in one behaviour
MaxTicks == 1       \* ticks of the 15 minute ticker in one behaviour
MaxFeedLen == 2     \* items in one fetched feed
MaxAdds == 2        \* goroutines started by sub commands in one behaviour

(***************************************************************************)
(* Program constants.                                                      *)
(***************************************************************************)
SendsCap == 16          \* make(chan tapi.MessageConfig, 16)
CutoffHours == 192      \* time.Now().Add(-192 * time.Hour)
TickerMinutes == 15     \* 15 * time.Minute

(***************************************************************************)
(* Strings.                                                                *)
(***************************************************************************)
\* strings.ToLower on ASCII: 'A'..'Z' (65..90) become 'a'..'z'
ToLowerChar(c) == IF c >= 65 /\ c <= 90 THEN c + 32 ELSE c

ToLower(s) == [i \in 1..Len(s) |-> ToLowerChar(s[i])]

\* strings.Contains(s, sub): sub occurs in s as a contiguous run (the empty
\* string occurs in every string)
Contains(s, sub) ==
    \E k \in 0..(Len(s) - Len(sub)) :
        \A i \in 1..Len(sub) : s[k + i] = sub[i]

\* Go's < on strings: byte-wise lexicographic, a proper prefix sorts first
StrLess(s, t) ==
    \E k \in 1..(Len(t)) :
        /\ k <= Len(s) + 1
        /\ \A i \in 1..(k - 1) : s[i] = t[i]
        /\ IF k = Len(s) + 1 THEN TRUE ELSE s[k] < t[k]

\* strings.Join(ss, " ")
RECURSIVE Join(_)
Join(ss) ==
    IF Len(ss) = 0 THEN <<>>
    ELSE IF Len(ss) = 1 THEN ss[1]
    ELSE ss[1] \o <<32>> \o Join(Tail(ss))

(***************************************************************************)
(* Time and ArticleKey.  A time.Time is [m, off]: the instant in minutes   *)
(* and the zone offset in hours.  The modelled instants share one month    *)
(* and have zero seconds, so of "2006-01-02T15:04:05Z07:00" the rendering  *)
(* keeps the day, the hour, the minute and the zone; the parts left out    *)
(* are the same characters at the same positions in every rendering.       *)
(***************************************************************************)
Digits2(n) == <<48 + ((n \div 10) % 10), 48 + (n % 10)>>

\* the zone of RFC3339: "Z" for offset 0, else sign and two digit hours
Zone(off) ==
    IF off = 0 THEN <<90>>
    ELSE IF off > 0 THEN <<43>> \o Digits2(off)
    ELSE <<45>> \o Digits2(0 - off)

\* t.Format(time.RFC3339): the wall clock of the time's own zone
FormatRFC3339(t) ==
    LET local == t.m + 60 * t.off
        day == local \div 1440
        hour == (local % 1440) \div 60
        min == local % 60
    IN Digits2(day + 1) \o <<84>> \o Digits2(hour) \o <<58>> \o Digits2(min)
           \o Zone(t.off)

\* NewArticleKey(title, ts, up): up, when present, replaces ts.  An absent
\* *time.Time is <<>>, a present one is <<t>>.
NewArticleKey(title, ts, up) ==
    FormatRFC3339((IF up # <<>> THEN up ELSE ts)[1]) \o <<45>> \o title

ItemKey(it) == NewArticleKey(it.Title, it.PublishedParsed, it.UpdatedParsed)

\* ts of update(): the key of now - 192h with an empty title.  time.Now()
\* is in the process's zone, which is UTC here.
CutoffKey(t) ==
    NewArticleKey(<<>>, <<[m |-> t - CutoffHours * 60, off |-> 0]>>, <<>>)

(***************************************************************************)
(* The world outside the process: chats, urls, and what a fetch returns.   *)
(***************************************************************************)
ChatIds == {1, 2}

UrlA == <<97>>              \* "a"
UrlB == <<98>>              \* "b"
Urls == {UrlA, UrlB}        \* the urls that serve a feed

\* the words of chat messages: the urls, "A", "B" and "c"
Words == Urls \cup {<<65>>, <<66>>, <<99>>}

\* the title the feed at url carries: "A b" and "B"
TitleAt(url) == IF url = UrlA THEN <<65, 32, 98>> ELSE <<66>>

StartNow == 9 * 1440 + 600      \* the clock when the process starts

UTC(m) == <<[m |-> m, off |-> 0]>>

\* gofeed.Item: Title, PublishedParsed, UpdatedParsed, Link
ItemOld ==
    [Title |-> <<97>>, PublishedParsed |-> UTC(StartNow - CutoffHours * 60 - 60),
     UpdatedParsed |-> <<>>, Link |-> "old"]

ItemEdge ==
    [Title |-> <<>>, PublishedParsed |-> UTC(StartNow - CutoffHours * 60),
     UpdatedParsed |-> <<>>, Link |-> "edge"]

ItemNew ==
    [Title |-> <<98>>, PublishedParsed |-> UTC(StartNow - 120),
     UpdatedParsed |-> <<>>, Link |-> "new"]

ItemUpd ==
    [Title |-> <<97>>, PublishedParsed |-> UTC(StartNow - CutoffHours * 60 - 60),
     UpdatedParsed |-> UTC(StartNow - 60), Link |-> "upd"]

ItemPool == {ItemOld, ItemEdge, ItemNew, ItemUpd}

Keys == {ItemKey(it) : it \in ItemPool}

\* what the feed at url lists, newest entry first, at the two moments a fetch
\* can find it in; a fetch returns at most the first MaxFeedLen entries
Listings(url) ==
    IF url = UrlA
    THEN {<<ItemUpd, ItemNew, ItemOld>>, <<ItemOld, ItemUpd>>}
    ELSE {<<ItemNew, ItemEdge, ItemUpd>>, <<>>}

Truncate(s) == IF Len(s) > MaxFeedLen THEN SubSeq(s, 1, MaxFeedLen) ELSE s

FeedItems(url) == {Truncate(s) : s \in Listings(url)}

(***************************************************************************)
(* sort.Slice.                                                             *)
(***************************************************************************)
QLessDescending(x, y) == StrLess(y.a, x.a)

\* the less function of update(): q[i].a < q[j].a
QLess(x, y) == StrLess(x.a, y.a)

\* the orders of q's elements that the less function accepts; sort.Slice is
\* not stable, so every such order is a result
SortedPerms(q) ==
    {p \in [1..Len(q) -> 1..Len(q)] :
        /\ \A i, j \in 1..Len(q) : i # j => p[i] # p[j]
        /\ \A i, j \in 1..Len(q) : i < j => ~QLess(q[p[j]], q[p[i]])}

SortSlice(q) == {[i \in 1..Len(q) |-> q[p[i]]] : p \in SortedPerms(q)}

(***************************************************************************)
(* The state after NewServer: empty, or what an earlier run exported.      *)
(***************************************************************************)
NoMap == [x \in {} |-> {}]

NewFeed(title) == [Chats |-> {}, Title |-> title]

\* a registry with both urls, subscribed by the chats ca and cb
Registry2(ca, cb) ==
    [feeds |-> [u \in Urls |-> IF u = UrlA THEN 1 ELSE 2],
     heap |-> <<[Chats |-> ca, Title |-> TitleAt(UrlA)],
                [Chats |-> cb, Title |-> TitleAt(UrlB)]>>]

\* a registry with url a alone
Registry1(ca) ==
    [feeds |-> [u \in {UrlA} |-> 1],
     heap |-> <<[Chats |-> ca, Title |-> TitleAt(UrlA)]>>]

Registries ==
    {[feeds |-> NoMap, heap |-> <<>>], Registry1({1}), Registry2({1}, {1})}

\* more registries, for the specifications of a single poll cycle
RegistriesWide ==
    Registries
    \cup {Registry1({1, 2})}
    \cup {Registry2(ca, cb) : ca \in {{1}, {1, 2}}, cb \in {{}, {1}, {2}}}

\* the chats of a registry: CheckSeen ran for each before it was added
ChatsOf(r) == UNION {r.heap[i].Chats : i \in 1..Len(r.heap)}

\* the seen-sets an earlier run can have exported for chat c
SeenBefore(c) == IF c = 1 THEN {{}, {ItemKey(ItemOld), ItemKey(ItemNew)}} ELSE {{}}

\* the states NewServer can decode from storage (or start from, with no file)
RestoredOf(regs) ==
    UNION {{[feeds |-> r.feeds, heap |-> r.heap, seens |-> s] :
               s \in {f \in [ChatsOf(r) -> SUBSET Keys] :
                         \A c \in ChatsOf(r) : f[c] \in SeenBefore(c)}} :
           r \in regs}

Restored == RestoredOf(Registries)

RestoredWide == RestoredOf(RegistriesWide)

InitWith(rs) ==
    /\ \E r \in rs :
          /\ feeds = r.feeds
          /\ heap = r.heap
          /\ seens = r.seens
    /\ now = StartNow
    /\ mpc = "wait"
    /\ tpc = "call"
    /\ cyc = <<>>
    /\ tasks = <<>>
    /\ sends = <<>>
    /\ sender = <<>>
    /\ sent = <<>>
    /\ nfalse = [ck \in ChatIds \X Keys |-> 0]
    /\ covered = {}
    /\ adds = <<>>
    /\ fetches = 0
    /\ file = <<>>

Init == InitWith(Restored)

InitCycle == InitWith(RestoredWide)

\* the process is alive: main has not returned and no goroutine has panicked
Running == mpc = "wait"

regVars == <<feeds, heap>>
cmdVars == <<adds, fetches>>
expVars == <<covered, file>>
cycVars == <<cyc, tasks, sends, sender, sent>>

(***************************************************************************)
(* update(): the start of a poll cycle, lines 198-250.  The channel, the   *)
(* sender goroutine, the cutoff and one goroutine per feed are set up.     *)
(***************************************************************************)
NewTask(ref) ==
    [pc |-> "fetch", feed |-> ref, f |-> <<>>, visited |-> {}, cid |-> 0,
     i |-> 0, q |-> <<>>]

\* the per-feed goroutines started so far
NumTasks == Cardinality({<<n, u>> \in (1..Len(tasks)) \X Urls : u \in DOMAIN tasks[n]})

\* the calls of update() whose per-feed goroutines have not all returned
Busy == {n \in 1..Len(cyc) : \E u \in DOMAIN tasks[n] : tasks[n][u].pc # "done"}

\* seen0, alone and chats0 are history: the seen-sets when the call began,
\* whether no other call's goroutines have run during this one's, and the
\* subscribers of each feed when the call began
UpdateStart(kind) ==
    /\ Len(cyc) < MaxCycles
    /\ NumTasks + Cardinality(DOMAIN feeds) <= MaxTasks
    /\ cyc' = [n \in 1..(Len(cyc) + 1) |->
                 IF n = Len(cyc) + 1
                 THEN [kind |-> kind, ts |-> CutoffKey(now), pc |-> "wait",
                       wg |-> Cardinality(DOMAIN feeds), closed |-> FALSE,
                       seen0 |-> seens, alone |-> Busy = {},
                       chats0 |-> [u \in DOMAIN feeds |-> heap[feeds[u]].Chats]]
                 ELSE [cyc[n] EXCEPT !.alone = @ /\ n \notin Busy]]
    /\ tasks' = Append(tasks, [u \in DOMAIN feeds |-> NewTask(feeds[u])])
    /\ sends' = Append(sends, <<>>)
    /\ sender' = Append(sender, "range")
    /\ sent' = Append(sent, [c \in ChatIds |-> <<>>])

\* wg.Wait() returns, close(sends), update() returns (lines 252-254)
\* where the timer goroutine goes when its s.update() returns: to s.Export()
\* in main.go (lines 60 and 63), to the ticker in part_000 (Server.Update)
TimerAfterUpdate(ver) == IF ver = "main" THEN "export" ELSE "tick"

WaitReturnsAtOnce(wg) == TRUE

\* wg.Wait() (line 252) returns when the counter is zero
WaitReturns(wg) == wg = 0

UpdateReturn(ver, n) ==
    /\ Running
    /\ cyc[n].pc = "wait"
    /\ WaitReturns(cyc[n].wg)
    /\ cyc' = [cyc EXCEPT ![n].pc = "returned", ![n].closed = TRUE]
    /\ tpc' = IF cyc[n].kind = "timer" THEN TimerAfterUpdate(ver) ELSE tpc
    /\ UNCHANGED <<regVars, seens, now, mpc, tasks, sends, sender, sent,
                   nfalse, expVars, cmdVars>>

(***************************************************************************)
(* The sender goroutine of update(), lines 205-212.                        *)
(***************************************************************************)
SenderStopsOnError(err) == IF err THEN "done" ELSE "range"

\* the sender after s.bot.Send(m) returned (lines 207-210): an error is
\* logged and the range loop goes on
SenderAfter(err) == "range"

\* what the sender handed to bot.Send: the message and, as history, whether
\* Send returned an error
Attempt(m, err) ==
    [ChatID |-> m.ChatID, Text |-> m.Text, a |-> m.a, url |-> m.url, err |-> err]

\* for m := range sends { s.bot.Send(m) }: one message is received and sent
SenderSend(n, err) ==
    LET m == Head(sends[n]) IN
    /\ Running
    /\ sender[n] = "range"
    /\ sends[n] # <<>>
    /\ sends' = [sends EXCEPT ![n] = Tail(@)]
    /\ sent' = [sent EXCEPT ![n][m.ChatID] = Append(@, Attempt(m, err))]
    /\ sender' = [sender EXCEPT ![n] = SenderAfter(err)]
    /\ UNCHANGED <<regVars, seens, now, mpc, tpc, cyc, tasks, nfalse,
                   expVars, cmdVars>>

\* the range loop ends when the channel is closed and empty
SenderEnd(n) ==
    /\ Running
    /\ sender[n] = "range"
    /\ sends[n] = <<>>
    /\ cyc[n].closed
    /\ sender' = [sender EXCEPT ![n] = "done"]
    /\ UNCHANGED <<regVars, seens, now, mpc, tpc, cyc, tasks, sends, sent, nfalse,
                   expVars, cmdVars>>

(***************************************************************************)
(* Persistence: Server.Export and NewServer, encoding/json.  A JSON object *)
(* is the sequence of its members <<name, value>> in the order written, a  *)
(* JSON array the sequence of its elements.                                *)
(***************************************************************************)
\* strconv.FormatInt(n, 10) for n >= 0: how a map key of type int64 is written
RECURSIVE Itoa(_)
Itoa(n) == IF n < 10 THEN <<48 + n>> ELSE Itoa(n \div 10) \o <<48 + (n % 10)>>

\* strconv.ParseInt(s, 10, 64) on a string of digits
RECURSIVE Atoi(_)
Atoi(s) ==
    IF Len(s) = 0 THEN 0
    ELSE 10 * Atoi(SubSeq(s, 1, Len(s) - 1)) + (s[Len(s)] - 48)

\* the sequences that list every element of the set once
OrdersOf(set) ==
    {s \in [1..Cardinality(set) -> set] : \A i, j \in 1..Cardinality(set) : i # j => s[i] # s[j]}

\* the order in which the encoder writes the keys of a map: sorted as strings
SortedKeys(set) ==
    CHOOSE s \in OrdersOf(set) : \A i, j \in 1..Len(s) : i < j => StrLess(s[i], s[j])

\* a Feed: {"Chats": {"<cid>": {}, ...}, "Title": "..."}
MarshalFeed(feed) ==
    [Chats |-> SortedKeys({Itoa(c) : c \in feed.Chats}), Title |-> feed.Title]

\* Server.Feeds: the urls in sorted order, each with its Feed
MarshalFeeds ==
    LET us == SortedKeys(DOMAIN feeds)
    IN [i \in 1..Len(us) |-> <<us[i], MarshalFeed(heap[feeds[us[i]]])>>]

\* a Seen: in main.go the map is written as an object, keys sorted; in
\* part_000 Seen.MarshalJSON writes an array in the order of the range over
\* the map, which is any order
MarshalSeen(ver, set) == IF ver = "main" THEN {SortedKeys(set)} ELSE OrdersOf(set)

\* Server.Seens: the chat ids in the sorted order of their decimal strings
MarshalSeens(ver) ==
    LET cs == SortedKeys({Itoa(c) : c \in DOMAIN seens})
    IN {s \in [1..Len(cs) -> UNION {{<<cs[i], x>> : x \in MarshalSeen(ver, seens[Atoi(cs[i])])} :
                                       i \in 1..Len(cs)}] :
           \A i \in 1..Len(cs) : s[i][1] = cs[i]}

\* json.NewEncoder(w).Encode(s): the documents Export can write
Marshal(ver) == {[Feeds |-> MarshalFeeds, Seens |-> s] : s \in MarshalSeens(ver)}

\* the members of a JSON object as a Go map: name -> value
MembersOf(obj) == {obj[i][1] : i \in 1..Len(obj)}

ValueOf(obj, name) == (CHOOSE i \in 1..Len(obj) : obj[i][1] = name /\ \A j \in (i + 1)..Len(obj) : obj[j][1] # name) \* the last member of that name counts

\* json Decode of "Feeds": a new Feed object per url, Chats keyed by ParseInt
UnmarshalFeeds(doc) ==
    LET us == SortedKeys(MembersOf(doc.Feeds))
    IN [feeds |-> [u \in MembersOf(doc.Feeds) |-> CHOOSE i \in 1..Len(us) : us[i] = u],
        heap |-> [i \in 1..Len(us) |->
                    LET j == ValueOf(doc.Feeds, us[i])
                    IN [Chats |-> {Atoi(doc.Feeds[j][2].Chats[k]) :
                                     k \in 1..Len(doc.Feeds[j][2].Chats)},
                        Title |-> doc.Feeds[j][2].Title]]]

\* json Decode of "Seens".  main.go: each value is an object and becomes a
\* new map.  part_000: each value is an array handed to Seen.UnmarshalJSON,
\* whose receiver is the nil map of the new element: with an empty array the
\* element stays nil, with any key the assignment to the nil map panics.
UnmarshalSeensPanics(ver, doc) ==
    ver = "old" /\ \E i \in 1..Len(doc.Seens) : doc.Seens[i][2] # <<>>

UnmarshalSeens(ver, doc) ==
    LET cs == {Atoi(c) : c \in MembersOf(doc.Seens)}
        made == IF ver = "main" THEN cs ELSE {}
    IN [c \in made |->
          LET v == doc.Seens[ValueOf(doc.Seens, Itoa(c))][2]
          IN {v[k] : k \in 1..Len(v)}]

(***************************************************************************)
(* The per-feed goroutine of update(), lines 223-249.  ver is "main" for   *)
(* src/main.go and "old" for src/unnamed/part_000.  A step of the          *)
(* goroutine runs up to and including its next access to the seen-sets or  *)
(* the channel.                                                            *)
(***************************************************************************)
\* the wait group counter when a per-feed goroutine returns: main.go defers
\* wg.Done(), part_000 has no wg.Done()
WgAtReturn(ver, wg) == IF ver = "main" THEN wg - 1 ELSE wg

\* the cycle records after the goroutine of cycle n took a step to task t
AfterStep(ver, n, t) ==
    IF t.pc = "done" THEN [cyc EXCEPT ![n].wg = WgAtReturn(ver, @)] ELSE cyc

RangeChatsAll(t) == ChatIds

\* what the range of line 232 reads: the subscribers of the Feed object the
\* goroutine was started with, as they are now
RangeChats(t) == heap[t.feed].Chats

\* for cid := range feed.Chats (line 232): the next chat, in any order, or
\* the end of the goroutine.  With no items the loop bodies do nothing.
NextChat(t) ==
    LET rest == RangeChats(t) \ t.visited IN
    IF rest = {} \/ t.f = <<>>
    THEN {[t EXCEPT !.pc = "done", !.q = <<>>]}
    ELSE {[t EXCEPT !.visited = @ \cup {c}, !.cid = c, !.i = 1, !.q = <<>>,
                    !.pc = "mark"] : c \in rest}

\* the task after item i of the feed has been handled: the next item, or
\* sort.Slice(q) (lines 242-244) and then the sends or the next chat
AfterItem(t, q) ==
    IF t.i < Len(t.f)
    THEN {[t EXCEPT !.i = @ + 1, !.q = q, !.pc = "mark"]}
    ELSE IF q = <<>>
         THEN NextChat(t)
         ELSE {[t EXCEPT !.q = sq, !.pc = "send"] : sq \in SortSlice(q)}

AfterCutoffOrEqual(a, ts) == ~StrLess(a, ts)

\* a > ts (line 237)
AfterCutoff(a, ts) == StrLess(ts, a)

\* q after MarkSeen returned false for item it with key a (lines 237-239)
Queue(q, a, it, ts) ==
    IF AfterCutoff(a, ts) THEN Append(q, [a |-> a, it |-> it]) ELSE q

\* ParseURL fails: log and return (lines 226-230)
TaskFetchFail(ver, n, u) ==
    LET t2 == [tasks[n][u] EXCEPT !.pc = "done"] IN
    /\ Running
    /\ tasks[n][u].pc = "fetch"
    /\ tasks' = [tasks EXCEPT ![n][u] = t2]
    /\ cyc' = AfterStep(ver, n, t2)
    /\ UNCHANGED <<regVars, seens, now, mpc, tpc, sends, sender, sent, nfalse,
                   expVars, cmdVars>>

\* ParseURL returns the feed (line 226); the loops begin
TaskFetchOk(ver, n, u, items) ==
    /\ Running
    /\ tasks[n][u].pc = "fetch"
    /\ \E t2 \in NextChat([tasks[n][u] EXCEPT !.f = items]) :
          /\ tasks' = [tasks EXCEPT ![n][u] = t2]
          /\ cyc' = AfterStep(ver, n, t2)
    /\ UNCHANGED <<regVars, seens, now, mpc, tpc, sends, sender, sent, nfalse,
                   expVars, cmdVars>>

\* NewArticleKey on an item with neither timestamp: ts is nil and ts.Format
\* (line 340) dereferences it
Untimed(it) == it.PublishedParsed = <<>> /\ it.UpdatedParsed = <<>>

\* NewArticleKey (line 235), where a nil dereference panics, and
\* Seens.MarkSeen, lines 359-362: the nil check and the lookup.  With the key
\* in the set MarkSeen returns true and the item is skipped.  (part_000:
\* Seen.Seen, which has no nil check.)
TaskMark(ver, n, u) ==
    LET t == tasks[n][u]
        a == ItemKey(t.f[t.i])
    IN
    /\ Running
    /\ t.pc \in {"mark", "lookup"}
    /\ IF Untimed(t.f[t.i])
       THEN /\ mpc' = "panic"
            /\ UNCHANGED <<tasks, cyc>>
       ELSE /\ UNCHANGED mpc
            /\ IF t.cid \notin DOMAIN seens
               THEN /\ tasks' = [tasks EXCEPT ![n][u].pc =
                                    IF ver = "main" /\ t.pc = "mark" THEN "make" ELSE "insert"]
                    /\ UNCHANGED cyc
               ELSE IF a \in seens[t.cid]
                    THEN \E t2 \in AfterItem(t, t.q) :
                            /\ tasks' = [tasks EXCEPT ![n][u] = t2]
                            /\ cyc' = AfterStep(ver, n, t2)
                    ELSE /\ tasks' = [tasks EXCEPT ![n][u].pc = "insert"]
                         /\ UNCHANGED cyc
    /\ UNCHANGED <<regVars, seens, now, tpc, sends, sender, sent, nfalse,
                   expVars, cmdVars>>

MarkedNothing(set, a) == set

\* the seen-set after s[cid][a] = struct{}{} (line 363)
Marked(set, a) == set \cup {a}

\* Seens.MarkSeen, lines 363-365: the insert and the return of false; then
\* the cutoff test and the append of update().  pc "make" is line 360,
\* s[cid] = make(Seen).  (part_000: Seen.Mark, which panics on a nil map.)
TaskInsert(ver, n, u) ==
    LET t == tasks[n][u]
        it == t.f[t.i]
        a == ItemKey(it)
    IN
    /\ Running
    /\ t.pc \in {"insert", "make"}
    /\ IF t.pc = "make"
       THEN /\ seens' = [c \in DOMAIN seens \cup {t.cid} |->
                           IF c = t.cid THEN {} ELSE seens[c]]
            /\ tasks' = [tasks EXCEPT ![n][u].pc = "lookup"]
            /\ UNCHANGED <<nfalse, mpc, cyc>>
       ELSE IF t.cid \notin DOMAIN seens
            THEN /\ mpc' = "panic"
                 /\ UNCHANGED <<seens, tasks, nfalse, cyc>>
            ELSE /\ seens' = [seens EXCEPT ![t.cid] = Marked(@, a)]
                 /\ nfalse' = [nfalse EXCEPT ![<<t.cid, a>>] = @ + 1]
                 /\ \E t2 \in AfterItem(t, Queue(t.q, a, it, cyc[n].ts)) :
                       /\ tasks' = [tasks EXCEPT ![n][u] = t2]
                       /\ cyc' = AfterStep(ver, n, t2)
                 /\ UNCHANGED mpc
    /\ UNCHANGED <<regVars, now, tpc, sends, sender, sent, expVars, cmdVars>>

\* tapi.NewMessage(cid, it.it.Link); a and url are not part of the message:
\* they record which item and which feed's goroutine it came from
NewMessage(cid, h, url) ==
    [ChatID |-> cid, Text |-> h.it.Link, a |-> h.a, url |-> url]

\* sends <- tapi.NewMessage(cid, it.it.Link) (lines 245-247): blocks while the
\* channel is full, panics when it is closed
TaskSend(ver, n, u) ==
    LET t == tasks[n][u] IN
    /\ Running
    /\ t.pc = "send"
    /\ IF cyc[n].closed
       THEN /\ mpc' = "panic"
            /\ UNCHANGED <<sends, tasks, cyc>>
       ELSE /\ Len(sends[n]) < SendsCap
            /\ sends' = [sends EXCEPT ![n] = Append(@, NewMessage(t.cid, Head(t.q), u))]
            /\ \E t2 \in (IF Len(t.q) = 1 THEN NextChat(t)
                          ELSE {[t EXCEPT !.q = Tail(@)]}) :
                  /\ tasks' = [tasks EXCEPT ![n][u] = t2]
                  /\ cyc' = AfterStep(ver, n, t2)
            /\ UNCHANGED mpc
    /\ UNCHANGED <<regVars, seens, now, tpc, sender, sent, nfalse, expVars, cmdVars>>

(***************************************************************************)
(* main and the timer goroutine, lines 50-71.                              *)
(***************************************************************************)
\* s.update() is called by the timer goroutine (lines 59 and 62)
TimerUpdate ==
    /\ Running
    /\ tpc = "call"
    /\ UpdateStart("timer")
    /\ tpc' = "update"
    /\ UNCHANGED <<regVars, seens, now, mpc, nfalse, expVars, cmdVars>>

\* Server.Export, lines 116-127, writes the state to the bucket (a failure is
\* logged): the calls of update() that have returned by the time it runs
Exported == covered \cup {n \in 1..Len(cyc) : cyc[n].pc = "returned"}

\* s.Export() after s.update() in the timer goroutine (lines 60 and 63)
TimerExport ==
    /\ Running
    /\ tpc = "export"
    /\ covered' = Exported
    /\ \E doc \in Marshal("main") : file' = <<doc>>
    /\ tpc' = "tick"
    /\ UNCHANGED <<regVars, seens, now, mpc, cycVars, nfalse, cmdVars>>

\* the ticker fires after 15 minutes (line 61)
Tick ==
    /\ Running
    /\ tpc = "tick"
    /\ now < StartNow + MaxTicks * TickerMinutes
    /\ now' = now + TickerMinutes
    /\ tpc' = "call"
    /\ UNCHANGED <<regVars, seens, mpc, cycVars, nfalse, expVars, cmdVars>>

\* SIGINT arrives: <-sigs returns, main returns, the deferred s.Export()
\* runs and the process ends (lines 55 and 69-71)
Shutdown(ver) ==
    /\ Running
    /\ covered' = Exported
    /\ \E doc \in Marshal(ver) : file' = <<doc>>
    /\ mpc' = "exited"
    /\ UNCHANGED <<regVars, seens, now, tpc, cycVars, nfalse, cmdVars>>

(***************************************************************************)
(* Feeds: New, Add, Rm, List (lines 256-332), and Seens.CheckSeen.         *)
(***************************************************************************)
\* the chats of the feed registered under url
ChatsAt(url) == heap[feeds[url]].Chats

\* Feed.Add and Feed.Rm on the object the registry holds for url
FeedAdd(url, cid) == [heap EXCEPT ![feeds[url]].Chats = @ \cup {cid}]

FeedRm(url, cid) == [heap EXCEPT ![feeds[url]].Chats = @ \ {cid}]

\* Feeds.New(url), lines 264-271, given whether ParseURL succeeded: the
\* registry and the error it returns
FeedsNewKeepsEntry(url, ok) ==
    [feeds |-> [u \in DOMAIN feeds \cup {url} |-> IF u = url THEN Len(heap) + 1 ELSE feeds[u]],
     heap |-> Append(heap, NewFeed(IF ok THEN TitleAt(url) ELSE <<>>)),
     err |-> ~ok]

FeedsNew(url, ok) ==
    IF ok
    THEN [feeds |-> [u \in DOMAIN feeds \cup {url} |->
                        IF u = url THEN Len(heap) + 1 ELSE feeds[u]],
          heap |-> Append(heap, NewFeed(TitleAt(url))),
          err |-> FALSE]
    ELSE [feeds |-> feeds, heap |-> heap, err |-> TRUE]

\* the test of Feeds.Add, line 274: _, ok := f[url]
KnownNever(url) == FALSE

Known(url) == url \in DOMAIN feeds

\* Feeds.Add, line 274 and, for a known url, line 281
AddLookup(g) ==
    LET a == adds[g] IN
    /\ Running
    /\ a.pc = "start"
    /\ IF Known(a.url)
       THEN /\ heap' = FeedAdd(a.url, a.cid)
            /\ adds' = [adds EXCEPT ![g].pc = "done", ![g].ret = "nil"]
       ELSE /\ adds' = [adds EXCEPT ![g].pc = "new"]
            /\ UNCHANGED heap
    /\ UNCHANGED <<feeds, seens, now, mpc, tpc, cycVars, nfalse, expVars, fetches>>

\* Feeds.Add, lines 275-279: f.New(url) fetches the feed; ok tells whether
\* ParseURL succeeded, which it can only where a feed is served
AddNew(g, ok) ==
    LET a == adds[g]
        r == FeedsNew(a.url, ok)
    IN
    /\ Running
    /\ a.pc = "new"
    /\ ok => a.url \in Urls
    /\ fetches' = fetches + 1
    /\ feeds' = r.feeds
    /\ heap' = r.heap
    /\ adds' = IF r.err
               THEN [adds EXCEPT ![g].pc = "done", ![g].ret = "err"]
               ELSE [adds EXCEPT ![g].pc = "add"]
    /\ UNCHANGED <<seens, now, mpc, tpc, cycVars, nfalse, expVars>>

\* Feeds.Add, lines 281-282: f[url].Add(cid); return nil
AddChat(g) ==
    LET a == adds[g] IN
    /\ Running
    /\ a.pc = "add"
    /\ heap' = FeedAdd(a.url, a.cid)
    /\ adds' = [adds EXCEPT ![g].pc = "done", ![g].ret = "nil"]
    /\ UNCHANGED <<feeds, seens, now, mpc, tpc, cycVars, nfalse, expVars, fetches>>

\* the feeds whose title matches in Feeds.Rm, lines 292-294
TitleMatchesCaseSensitive(title) ==
    {u \in DOMAIN feeds : Contains(heap[feeds[u]].Title, title)}

TitleMatches(title) ==
    {u \in DOMAIN feeds : Contains(ToLower(heap[feeds[u]].Title), ToLower(title))}

\* Feeds.Rm(url, title, cid), lines 285-300: the possible outcomes, each the
\* heap and whether an error is returned.  The range over the map meets the
\* feeds in any order, so any matching feed can be the first.
Rm(url, title, cid) ==
    IF url # <<>> /\ url \in DOMAIN feeds
    THEN {[heap |-> FeedRm(url, cid), err |-> FALSE]}
    ELSE IF TitleMatches(title) # {}
         THEN {[heap |-> FeedRm(u, cid), err |-> FALSE] : u \in TitleMatches(title)}
         ELSE {[heap |-> heap, err |-> TRUE]}

\* Feeds.List(cid), lines 302-310: feed.Title + ": " + u for the feeds of cid
List(cid) ==
    {heap[feeds[u]].Title \o <<58, 32>> \o u : u \in {v \in DOMAIN feeds : cid \in ChatsAt(v)}}

CheckSeenResets(cid) == [c \in DOMAIN seens \cup {cid} |-> IF c = cid THEN {} ELSE seens[c]]

\* Seens.CheckSeen(cid), lines 349-353
CheckSeen(cid) ==
    IF cid \in DOMAIN seens THEN seens
    ELSE [c \in DOMAIN seens \cup {cid} |-> IF c = cid THEN {} ELSE seens[c]]

(***************************************************************************)
(* Respond, lines 129-196: one chat message per step.  args are the words  *)
(* after the command word, ss[1:].  The reply text that Respond sends back *)
(* (line 191) is computed before the goroutines of sub have run and is not *)
(* part of the state.                                                      *)
(***************************************************************************)
\* the argument lists of the sub messages: no url, one word, or two urls of
\* which one may serve no feed
SubArgs ==
    {<<>>} \cup {<<w>> : w \in Urls \cup {<<99>>}}
    \cup {<<UrlA, w>> : w \in Urls \cup {<<99>>}}

\* the argument lists of the unsub messages: nothing, one word, or "A b"
UnsubArgs == {<<>>} \cup {<<w>> : w \in Words} \cup {<<<<65>>, UrlB>>}

\* "sub" (lines 148-157): CheckSeen, then one goroutine per url; without a
\* url only the reply is sent
CmdSub(cid, args) ==
    /\ Running
    /\ Len(adds) + Len(args) <= MaxAdds
    /\ seens' = IF args = <<>> THEN seens ELSE CheckSeen(cid)
    /\ adds' = adds \o [i \in 1..Len(args) |->
                          [url |-> args[i], cid |-> cid, pc |-> "start", ret |-> ""]]
    /\ UNCHANGED <<regVars, now, mpc, tpc, cycVars, nfalse, expVars, fetches>>

\* "unsub" (lines 158-167): Rm(ss[1], strings.Join(ss[1:], " "), cid); the
\* error of Rm goes into the reply
CmdUnsub(cid, args) ==
    /\ Running
    /\ IF args = <<>>
       THEN UNCHANGED heap
       ELSE \E r \in Rm(args[1], Join(args), cid) : heap' = r.heap
    /\ UNCHANGED <<feeds, seens, now, mpc, tpc, cycVars, nfalse, expVars, adds, fetches>>

\* "list" (lines 168-170) replies List(cid); "start", "help" and any other
\* first word (lines 178-189) reply the usage text
CmdList(cid) ==
    /\ Running
    /\ List(cid) \subseteq {TitleAt(u) \o <<58, 32>> \o u : u \in Urls}
    /\ UNCHANGED vars

Authorized == "seankhliao"

UserNames == {Authorized, "other"}

\* whether "update" starts a poll cycle for the user: line 172 of main.go;
\* part_000 has no test
MayUpdate(ver, user) == ver = "old" \/ user = Authorized

\* "update" (lines 171-177): go s.update(), or only the refusal as reply
CmdUpdate(ver, user) ==
    /\ Running
    /\ IF MayUpdate(ver, user) THEN UpdateStart("manual") ELSE UNCHANGED cycVars
    /\ UNCHANGED <<regVars, seens, now, mpc, tpc, nfalse, expVars, adds, fetches>>

(***************************************************************************)
(* Specifications.                                                         *)
(***************************************************************************)
\* the steps of the goroutines of the calls of update()
PollStep(ver) ==
    \/ \E n \in 1..Len(cyc) : UpdateReturn(ver, n)
    \/ \E n \in 1..Len(cyc) : \E err \in BOOLEAN : SenderSend(n, err)
    \/ \E n \in 1..Len(cyc) : SenderEnd(n)
    \/ \E n \in 1..Len(cyc) : \E u \in DOMAIN tasks[n] : TaskFetchFail(ver, n, u)
    \/ \E n \in 1..Len(cyc) : \E u \in DOMAIN tasks[n] : \E items \in FeedItems(u) :
          TaskFetchOk(ver, n, u, items)
    \/ \E n \in 1..Len(cyc) : \E u \in DOMAIN tasks[n] : TaskMark(ver, n, u)
    \/ \E n \in 1..Len(cyc) : \E u \in DOMAIN tasks[n] : TaskInsert(ver, n, u)
    \/ \E n \in 1..Len(cyc) : \E u \in DOMAIN tasks[n] : TaskSend(ver, n, u)

\* src/main.go: the timer, manual updates and the shutdown
Next ==
    \/ TimerUpdate
    \/ TimerExport
    \/ Tick
    \/ Shutdown("main")
    \/ \E user \in UserNames : CmdUpdate("main", user)
    \/ PollStep("main")

Spec == Init /\ [][Next]_vars

\* src/main.go: the first poll cycle after the start, and its Export
NextCycle ==
    \/ TimerUpdate
    \/ TimerExport
    \/ PollStep("main")

SpecCycle == InitCycle /\ [][NextCycle]_vars

\* src/unnamed/part_000: the timer and manual updates
NextOld ==
    \/ TimerUpdate
    \/ Tick
    \/ Shutdown("old")
    \/ \E user \in UserNames : CmdUpdate("old", user)
    \/ PollStep("old")

SpecOld == Init /\ [][NextOld]_vars

\* src/main.go: the commands on the registry and the goroutines of sub
NextCmd ==
    \/ \E cid \in ChatIds, args \in SubArgs : CmdSub(cid, args)
    \/ \E cid \in ChatIds, args \in UnsubArgs : CmdUnsub(cid, args)
    \/ \E cid \in ChatIds : CmdList(cid)
    \/ \E g \in 1..Len(adds) : AddLookup(g)
    \/ \E g \in 1..Len(adds), ok \in BOOLEAN : AddNew(g, ok)
    \/ \E g \in 1..Len(adds) : AddChat(g)

SpecCmd == Init /\ [][NextCmd]_vars

\* one feed with one or two subscribers
InitSend == InitWith(RestoredOf({Registry1({1}), Registry1({1, 2})}))

\* the first poll cycle with every goroutine scheduled again and again, and
\* every fetch and every Send returning
SpecSendFair == InitSend /\ [][NextCycle]_vars /\ WF_vars(NextCycle)

(***************************************************************************)
(* The next start of the process: NewServer reads what Export wrote.       *)
(***************************************************************************)
\* NewServer (main.go lines 81-114, part_000 lines 75-102): without an
\* object in the bucket the server starts empty; else the object is decoded
NewServer(ver) ==
    IF file = <<>>
    THEN [feeds |-> NoMap, heap |-> <<>>, seens |-> NoMap]
    ELSE [feeds |-> UnmarshalFeeds(file[1]).feeds,
          heap |-> UnmarshalFeeds(file[1]).heap,
          seens |-> UnmarshalSeens(ver, file[1])]

\* the process is started again after it has ended
Restart(ver) ==
    /\ mpc = "exited"
    /\ IF file # <<>> /\ UnmarshalSeensPanics(ver, file[1])
       THEN /\ mpc' = "panic"
            /\ UNCHANGED <<regVars, seens, tpc, cycVars, covered, adds>>
       ELSE /\ feeds' = NewServer(ver).feeds
            /\ heap' = NewServer(ver).heap
            /\ seens' = NewServer(ver).seens
            /\ mpc' = "wait"
            /\ tpc' = "call"
            /\ cyc' = <<>>
            /\ tasks' = <<>>
            /\ sends' = <<>>
            /\ sender' = <<>>
            /\ sent' = <<>>
            /\ covered' = {}
            /\ adds' = <<>>
    /\ UNCHANGED <<now, nfalse, fetches, file>>

\* a registry whose Feed objects were created in the other order
RegistrySwapped ==
    [feeds |-> [u \in Urls |-> IF u = UrlA THEN 2 ELSE 1],
     heap |-> <<[Chats |-> {2}, Title |-> TitleAt(UrlB)],
                [Chats |-> {1, 2}, Title |-> TitleAt(UrlA)]>>]

InitStore == InitWith(RestoredOf(RegistriesWide \cup {RegistrySwapped}))

\* unsub commands, the end of the process and its next start
StoreStep(ver) ==
    \/ \E cid \in ChatIds, args \in UnsubArgs : CmdUnsub(cid, args)
    \/ Shutdown(ver)
    \/ Restart(ver)

\* src/main.go: what one run exports is what the next run starts from
SpecStore == InitStore /\ [][StoreStep("main")]_vars

\* src/unnamed/part_000: the same
SpecStoreOld == InitStore /\ [][StoreStep("old")]_vars

\* src/main.go: sub commands and their goroutines, no unsub
NextAdd ==
    \/ \E cid \in ChatIds, args \in SubArgs : CmdSub(cid, args)
    \/ \E g \in 1..Len(adds) : AddLookup(g)
    \/ \E g \in 1..Len(adds), ok \in BOOLEAN : AddNew(g, ok)
    \/ \E g \in 1..Len(adds) : AddChat(g)

SpecAdd == Init /\ [][NextAdd]_vars


\* src/unnamed/part_000: the first poll cycle after the start
NextCycleOld ==
    \/ TimerUpdate
    \/ PollStep("old")

\* every goroutine is scheduled again and again, and every fetch and every
\* Send returns
SpecCycleOldFair == InitCycle /\ [][NextCycleOld]_vars /\ WF_vars(NextCycleOld)

\* an item that carries neither <pubDate> nor <updated>
ItemUntimed ==
    [Title |-> <<99>>, PublishedParsed |-> <<>>, UpdatedParsed |-> <<>>, Link |-> "untimed"]

\* what the feed at url lists when one of its entries has no timestamp
ListingsUntimed(url) ==
    IF url = UrlA THEN {<<ItemNew, ItemUntimed, ItemUpd>>} ELSE {<<ItemUntimed>>}

FeedItemsUntimed(url) == {Truncate(s) : s \in ListingsUntimed(url)}

\* src/main.go: the first poll cycle, with feeds that may list such an item
NextUntimed ==
    \/ NextCycle
    \/ \E n \in 1..Len(cyc) : \E u \in DOMAIN tasks[n] : \E items \in FeedItemsUntimed(u) :
          TaskFetchOk("main", n, u, items)

SpecUntimed == InitCycle /\ [][NextUntimed]_vars

(***************************************************************************)
(* Feeds whose items carry timestamps in several zones.                    *)
(***************************************************************************)
\* the instants of the items: an hour before the cutoff of the first cycle,
\* an hour after it, and half an hour later still
ZonedInstants ==
    {StartNow - CutoffHours * 60 - 60, StartNow - CutoffHours * 60 + 60,
     StartNow - CutoffHours * 60 + 90}

\* the zone offsets of the items, in hours: UTC and UTC+2
ZonedOffsets == {0, 2}

\* the titles of the items: "a" and "b"
ZonedTitles == {<<97>>, <<98>>}

\* an item published at instant m, written with the offset off; its link
\* names the item
ZonedItem(m, off, title) ==
    [Title |-> title, PublishedParsed |-> <<[m |-> m, off |-> off]>>,
     UpdatedParsed |-> <<>>, Link |-> <<m, off, title>>]

ZonedItems ==
    {ZonedItem(m, off, title) : m \in ZonedInstants, off \in ZonedOffsets,
                                title \in ZonedTitles}

\* the feeds of two items
ZonedFeeds == {f \in ZonedItems \X ZonedItems : f[1] # f[2]}

InitZoned == InitWith(RestoredOf({Registry1({1})}))

\* src/main.go: the first poll cycle on a feed of two such items
NextZoned ==
    \/ TimerUpdate
    \/ TimerExport
    \/ \E n \in 1..Len(cyc) : UpdateReturn("main", n)
    \/ \E n \in 1..Len(cyc) : SenderSend(n, FALSE)
    \/ \E n \in 1..Len(cyc) : SenderEnd(n)
    \/ \E n \in 1..Len(cyc) : \E u \in DOMAIN tasks[n] : \E items \in ZonedFeeds :
          TaskFetchOk("main", n, u, items)
    \/ \E n \in 1..Len(cyc) : \E u \in DOMAIN tasks[n] : TaskMark("main", n, u)
    \/ \E n \in 1..Len(cyc) : \E u \in DOMAIN tasks[n] : TaskInsert("main", n, u)
    \/ \E n \in 1..Len(cyc) : \E u \in DOMAIN tasks[n] : TaskSend("main", n, u)

SpecZoned == InitZoned /\ [][NextZoned]_vars

\* a registry with url b alone
RegistryB(cb) ==
    [feeds |-> [u \in {UrlB} |-> 1],
     heap |-> <<[Chats |-> cb, Title |-> TitleAt(UrlB)]>>]

\* one feed with one subscriber that has seen nothing yet
InitOverlap == InitWith({r \in RestoredOf({RegistryB({1})}) : r.seens[1] = {}})

\* src/main.go: poll cycles of the timer and of the update command, which
\* can overlap; every Send succeeds
NextOverlap ==
    \/ TimerUpdate
    \/ \E user \in UserNames : CmdUpdate("main", user)
    \/ \E n \in 1..Len(cyc) : UpdateReturn("main", n)
    \/ \E n \in 1..Len(cyc) : SenderSend(n, FALSE)
    \/ \E n \in 1..Len(cyc) : SenderEnd(n)
    \/ \E n \in 1..Len(cyc) : \E u \in DOMAIN tasks[n] : TaskFetchFail("main", n, u)
    \/ \E n \in 1..Len(cyc) : \E u \in DOMAIN tasks[n] : \E items \in FeedItems(u) :
          TaskFetchOk("main", n, u, items)
    \/ \E n \in 1..Len(cyc) : \E u \in DOMAIN tasks[n] : TaskMark("main", n, u)
    \/ \E n \in 1..Len(cyc) : \E u \in DOMAIN tasks[n] : TaskInsert("main", n, u)
    \/ \E n \in 1..Len(cyc) : \E u \in DOMAIN tasks[n] : TaskSend("main", n, u)

SpecOverlap == InitOverlap /\ [][NextOverlap]_vars

\* registries in which chat 1 is a subscriber of url a
InitUnsub == InitWith(RestoredOf({Registry1({1, 2}), Registry2({1, 2}, {1})}))

\* src/main.go: unsub commands that name a url, before and during the first
\* poll cycle
NextUnsub ==
    \/ \E cid \in ChatIds, url \in Urls : CmdUnsub(cid, <<url>>)
    \/ NextCycle

SpecUnsub == InitUnsub /\ [][NextUnsub]_vars

\* no goroutine of a poll cycle or of a sub command is running
Quiet ==
    /\ \A n \in 1..Len(cyc) : cyc[n].pc = "returned" /\ sender[n] = "done"
    /\ \A g \in 1..Len(adds) : adds[g].pc = "done"

\* src/main.go: the commands of chat 1 and the poll cycles of the timer and
\* of the update command, on a registry that starts with one feed.  The
\* chat sends a message when the bot is quiet; the timer is not held back,
\* so its poll cycle can begin during an Add or during the cycle of an
\* update command.
NextBot ==
    \/ TimerUpdate
    \/ TimerExport
    \/ PollStep("main")
    \/ \E user \in UserNames : Quiet /\ CmdUpdate("main", user)
    \/ Quiet /\ CmdSub(1, <<UrlA>>)
    \/ Quiet /\ CmdUnsub(1, <<UrlB>>)
    \/ Quiet /\ CmdList(1)
    \/ \E g \in 1..Len(adds) : AddLookup(g)
    \/ \E g \in 1..Len(adds), ok \in BOOLEAN : AddNew(g, ok)
    \/ \E g \in 1..Len(adds) : AddChat(g)

SpecBot == InitOverlap /\ [][NextBot]_vars
(***************************************************************************)
(* Properties.                                                             *)
(***************************************************************************)
Cycles == 1..Len(cyc)

\* the messages of cycle n that a per-feed goroutine holds in its q
Held(n) ==
    UNION {{NewMessage(tasks[n][u].cid, tasks[n][u].q[i], u) :
                i \in 1..Len(tasks[n][u].q)} : u \in DOMAIN tasks[n]}

InChannel(n) == {sends[n][i] : i \in 1..Len(sends[n])}

\* the messages of cycle n that the sender has handed to bot.Send
Handed(n) ==
    UNION {{[ChatID |-> c, Text |-> sent[n][c][i].Text, a |-> sent[n][c][i].a,
             url |-> sent[n][c][i].url] : i \in 1..Len(sent[n][c])} : c \in ChatIds}

\* every message cycle n has queued so far
Queued(n) == Held(n) \cup InChannel(n) \cup Handed(n)

\* the keys of the items a goroutine fetched
KeysOf(t) == {ItemKey(t.f[i]) : i \in 1..Len(t.f)}

\* the messages of feed u in what cycle n handed to the transport for chat c
HandedFor(n, c, u) == SelectSeq(sent[n][c], LAMBDA m : m.url = u)

\* C1 as stated: in one poll cycle the messages handed to the transport for
\* a chat are in ascending ArticleKey order, over all feeds of the chat.
C1_ChatOrderAllFeeds ==
    \A n \in Cycles : \A c \in ChatIds :
        \A i, j \in 1..Len(sent[n][c]) :
            i < j => ~StrLess(sent[n][c][j].a, sent[n][c][i].a)

\* C1 amended: in one poll cycle the messages handed to the transport for a
\* chat on behalf of one feed are in strictly ascending ArticleKey order.
C1_ChatOrderPerFeed ==
    \A n \in Cycles : \A c \in ChatIds :
        \A i, j \in 1..Len(sent[n][c]) :
            (i < j /\ sent[n][c][i].url = sent[n][c][j].url)
                => StrLess(sent[n][c][i].a, sent[n][c][j].a)

\* two messages of one feed were handed over for a chat, and the feed lists
\* the later article first
C1_Witness ==
    \E n \in Cycles : \E u \in DOMAIN tasks[n] : \E c \in ChatIds :
        LET t == tasks[n][u]
            ms == HandedFor(n, c, u)
        IN /\ Len(ms) = 2
           /\ Len(t.f) >= 2
           /\ ItemKey(t.f[1]) = ms[2].a
           /\ ItemKey(t.f[2]) = ms[1].a

\* C2: of all MarkSeen(c, k) calls exactly the first returns false, so a key
\* that two feeds of a chat carry is queued for the chat at most once.
C2_MarkSeenOnce ==
    \A c \in ChatIds : \A k \in Keys :
        /\ nfalse[<<c, k>>] <= 1
        /\ Cardinality(UNION {{<<n, m.url>> :
                                  m \in {x \in Queued(n) : x.ChatID = c /\ x.a = k}} :
                               n \in Cycles}) <= 1

\* the chats for which goroutine t has finished the loop over the items
Finished(t) ==
    IF t.pc \in {"send", "done"} THEN t.visited ELSE t.visited \ {t.cid}

\* C3: an item whose key does not sort strictly after the cycle's cutoff key
\* (now minus 192 hours, empty title) is never queued, and its key is in the
\* chat's seen-set once the goroutine has processed the item.
C3_StaleNeverQueued ==
    \A n \in Cycles :
        /\ cyc[n].ts = FormatRFC3339([m |-> now - 192 * 60, off |-> 0]) \o <<45>>
        /\ \A m \in Queued(n) :
              /\ StrLess(cyc[n].ts, m.a)
              /\ \E it \in ItemPool : it.Link = m.Text /\ ItemKey(it) = m.a
        /\ \A u \in DOMAIN tasks[n] :
              LET t == tasks[n][u] IN
              /\ \A c \in Finished(t) : KeysOf(t) \subseteq seens[c]
              /\ t.pc \in {"mark", "insert"} =>
                    \A i \in 1..(t.i - 1) : ItemKey(t.f[i]) \in seens[t.cid]

\* a goroutine has returned that fetched an item not after the cutoff which
\* the chat had not seen before the cycle
C3_Witness ==
    \E n \in Cycles : \E u \in DOMAIN tasks[n] :
        LET t == tasks[n][u] IN
        /\ t.pc = "done"
        /\ \E c \in t.visited : \E i \in 1..Len(t.f) :
              /\ ~StrLess(cyc[n].ts, ItemKey(t.f[i]))
              /\ ItemKey(t.f[i]) \notin cyc[n].seen0[c]
              /\ ItemKey(t.f[i]) \in seens[c]
              /\ \A m \in Handed(n) : m.a # ItemKey(t.f[i])

\* no other feed of chat c carried, in cycle n, a key that feed u carried
NoOtherFeed(n, u, c) ==
    \A v \in DOMAIN tasks[n] \ {u} :
        c \in heap[tasks[n][v].feed].Chats => KeysOf(tasks[n][v]) \cap KeysOf(tasks[n][u]) = {}

\* the keys of feed u that cycle n has to deliver to chat c
Expected(n, u, c) ==
    {k \in KeysOf(tasks[n][u]) : k \notin cyc[n].seen0[c] /\ StrLess(cyc[n].ts, k)}

\* C4: after a poll cycle that ran alone, for every feed fetched and every
\* chat subscribed to it (no other feed of the chat carrying the same keys),
\* every key of the feed is in the chat's seen-set and the messages sent to
\* the chat for the feed are exactly one, the item's link, per key that was
\* not seen before the cycle and sorts strictly after the cutoff.
C4_CycleDelivers ==
    \A n \in Cycles :
        (cyc[n].pc = "returned" /\ sender[n] = "done" /\ cyc[n].alone) =>
            \A u \in DOMAIN tasks[n] : \A c \in heap[tasks[n][u].feed].Chats :
                NoOtherFeed(n, u, c) =>
                    LET t == tasks[n][u]
                        ms == HandedFor(n, c, u)
                    IN /\ KeysOf(t) \subseteq seens[c]
                       /\ Len(ms) = Cardinality(Expected(n, u, c))
                       /\ {ms[i].a : i \in 1..Len(ms)} = Expected(n, u, c)
                       /\ \A i \in 1..Len(ms) : \E j \in 1..Len(t.f) :
                             ItemKey(t.f[j]) = ms[i].a /\ t.f[j].Link = ms[i].Text

\* a cycle is over in which a feed carried a key the chat had seen and a key
\* it had to deliver, while another feed of the chat carried other keys
C4_Witness ==
    \E n \in Cycles : \E u \in DOMAIN tasks[n] : \E c \in heap[tasks[n][u].feed].Chats :
        /\ cyc[n].pc = "returned" /\ sender[n] = "done" /\ cyc[n].alone
        /\ NoOtherFeed(n, u, c)
        /\ Expected(n, u, c) # {}
        /\ KeysOf(tasks[n][u]) \cap cyc[n].seen0[c] # {}
        /\ \E v \in DOMAIN tasks[n] \ {u} :
              c \in heap[tasks[n][v].feed].Chats /\ KeysOf(tasks[n][v]) # {}

\* the goroutines of cycle n whose fetch failed (or found no item)
Abandoned(n) == {u \in DOMAIN tasks[n] : tasks[n][u].pc = "done" /\ tasks[n][u].visited = {}}

\* C5: a failed fetch abandons only that feed: its goroutine queues nothing,
\* the feed stays in the registry, and once every goroutine of the cycle has
\* returned the wait group lets the cycle complete.
C5_FailureIsolated ==
    \A n \in Cycles :
        /\ \A u \in Abandoned(n) : \A m \in Queued(n) : m.url # u
        /\ DOMAIN tasks[n] \subseteq DOMAIN feeds
        /\ (\A u \in DOMAIN tasks[n] : tasks[n][u].pc = "done") => cyc[n].wg = 0

\* C6: Add(url, c) on a url that is not a key and whose fetch fails returns
\* an error and leaves the registry unchanged, at each of its steps.
C6_FailedAddLeavesRegistry ==
    [][\A g \in 1..Len(adds) :
          (/\ adds[g].pc \in {"start", "new"}
           /\ adds[g].url \notin DOMAIN feeds
           /\ adds'[g] # adds[g]
           /\ adds'[g].pc # "add")
          => /\ adds[g].pc = "start" => adds'[g].pc = "new"
             /\ adds[g].pc = "new" => adds'[g].pc = "done" /\ adds'[g].ret = "err"
             /\ feeds' = feeds
             /\ heap' = heap]_vars

\* an Add has returned an error and its url is no key of the registry
C6_Witness ==
    \E g \in 1..Len(adds) :
        adds[g].pc = "done" /\ adds[g].ret = "err" /\ adds[g].url \notin DOMAIN feeds

\* C7: when Add(url, c) returns without error c is a subscriber of url, and
\* an Add(url, c) for a chat already subscribed to url leaves the registry
\* as it is and fetches nothing.
C7_AddIdempotent ==
    [][\A g \in 1..Len(adds) :
          /\ (adds[g].pc # "done" /\ adds'[g].pc = "done" /\ adds'[g].ret = "nil")
                => /\ adds[g].url \in DOMAIN feeds'
                   /\ adds[g].cid \in heap'[feeds'[adds[g].url]].Chats
          /\ (/\ adds[g].pc = "start"
              /\ adds'[g] # adds[g]
              /\ adds[g].url \in DOMAIN feeds
              /\ adds[g].cid \in heap[feeds[adds[g].url]].Chats)
                => /\ adds'[g].pc = "done"
                   /\ adds'[g].ret = "nil"
                   /\ feeds' = feeds
                   /\ heap' = heap
                   /\ fetches' = fetches]_vars

\* two Adds of the same chat to the same url have returned without error
\* after a single fetch
C7_Witness ==
    \E g, h \in 1..Len(adds) :
        /\ g < h
        /\ adds[g].url = adds[h].url /\ adds[g].cid = adds[h].cid
        /\ adds[g].pc = "done" /\ adds[g].ret = "nil"
        /\ adds[h].pc = "done" /\ adds[h].ret = "nil"
        /\ fetches = 1

\* the urls tried on Rm: the feeds' urls, "c" and the empty string
UrlQueries == Urls \cup {<<>>, <<99>>}

\* the titles tried on Rm: "", "a", "B", "a B" and "c"
TitleQueries == {<<>>, <<97>>, <<66>>, <<97, 32, 66>>, <<99>>}

\* heap h differs from the heap at most by chat cid removed from feed u
RemovedFrom(h, u, cid) ==
    /\ Len(h) = Len(heap)
    /\ \A i \in 1..Len(heap) :
          /\ h[i].Title = heap[i].Title
          /\ h[i].Chats = IF i = feeds[u] THEN heap[i].Chats \ {cid} ELSE heap[i].Chats

\* C8: Rm removes c from the feed keyed url when url is a key, else from one
\* feed whose title contains the query without regard to case, else returns
\* the error and changes nothing; never more than c from one feed.
C8_RmOutcome ==
    \A url \in UrlQueries : \A title \in TitleQueries : \A c \in ChatIds :
        LET lower == [i \in 1..Len(title) |->
                        IF title[i] \in 65..90 THEN title[i] + 32 ELSE title[i]]
            hit(u) == LET tl == heap[feeds[u]].Title
                      IN \E k \in 0..(Len(tl) - Len(lower)) : \A i \in 1..Len(lower) :
                            (IF tl[k + i] \in 65..90 THEN tl[k + i] + 32 ELSE tl[k + i])
                                = lower[i]
        IN /\ Rm(url, title, c) # {}
           /\ \A r \in Rm(url, title, c) :
                IF url \in DOMAIN feeds
                THEN ~r.err /\ RemovedFrom(r.heap, url, c)
                ELSE IF \E u \in DOMAIN feeds : hit(u)
                     THEN ~r.err /\ \E u \in DOMAIN feeds : hit(u) /\ RemovedFrom(r.heap, u, c)
                     ELSE r.err /\ r.heap = heap

\* no sub was ever sent, and the chat the first feed started with is gone
C8_Witness ==
    /\ adds = <<>>
    /\ Len(heap) >= 1
    /\ heap[1].Chats = {}

\* the goroutine that called update() for cycle n is past the place where
\* an Export could follow the call
CallerPast(n) ==
    \/ cyc[n].kind = "manual"
    \/ tpc \in {"tick", "call"}
    \/ \E k \in Cycles : k > n /\ cyc[k].kind = "timer"

\* C9: every poll cycle that completes, started by the timer or by the
\* update command, is followed by an Export.
C9_ExportFollows ==
    \A n \in Cycles : (cyc[n].pc = "returned" /\ CallerPast(n)) => n \in covered

\* C10: when update() returns all per-feed goroutines have returned and
\* every message queued in the cycle has been handed to the transport.
C10_DrainedAtReturn ==
    \A n \in Cycles :
        cyc[n].pc = "returned" =>
            /\ \A u \in DOMAIN tasks[n] : tasks[n][u].pc = "done"
            /\ sends[n] = <<>>
            /\ Queued(n) = Handed(n)

\* a Send of some poll cycle has returned an error
SendFailed ==
    \E n \in Cycles : \E c \in ChatIds : \E i \in 1..Len(sent[n][c]) : sent[n][c][i].err

\* every poll cycle is over: update() has returned, the sender has left its
\* loop, and every message that was queued has been handed to bot.Send
AllDelivered ==
    \A n \in Cycles :
        /\ cyc[n].pc = "returned"
        /\ sender[n] = "done"
        /\ \A u \in DOMAIN tasks[n] : tasks[n][u].pc = "done"
        /\ sends[n] = <<>>
        /\ Queued(n) = Handed(n)

\* C12: after a Send has failed the cycle still completes: the producers
\* finish, update() returns and every queued message is handed to bot.Send.
C12_FailedSendGoesOn == SendFailed ~> AllDelivered

\* a chat's first message failed and a later one was attempted, in a cycle
\* that is over
C12_Witness ==
    \E n \in Cycles : \E c \in ChatIds :
        /\ Len(sent[n][c]) >= 2
        /\ sent[n][c][1].err
        /\ cyc[n].pc = "returned"
        /\ sender[n] = "done"

\* C13: the state a process starts from is equivalent to the state the
\* process before it exported: the same urls with the same titles and
\* subscribers, the same chats with the same seen-sets.
C13_RoundTrip ==
    [][(mpc = "exited" /\ mpc' # "exited") =>
          /\ mpc' = "wait"
          /\ DOMAIN feeds' = DOMAIN feeds
          /\ \A u \in DOMAIN feeds :
                /\ heap'[feeds'[u]].Title = heap[feeds[u]].Title
                /\ heap'[feeds'[u]].Chats = heap[feeds[u]].Chats
          /\ DOMAIN seens' = DOMAIN seens
          /\ \A c \in DOMAIN seens : seens'[c] = seens[c]]_vars

\* C14: with no unsub in between, once every Add of a url has returned,
\* each Add(url, c) that returned without error has c among the subscribers
\* of url, also when the Adds ran concurrently on a url not yet known.
C14_NoLostSubscription ==
    \A g \in 1..Len(adds) :
        (/\ adds[g].pc = "done" /\ adds[g].ret = "nil"
         /\ \A h \in 1..Len(adds) : adds[h].url = adds[g].url => adds[h].pc = "done")
        => /\ adds[g].url \in DOMAIN feeds
           /\ adds[g].cid \in heap[feeds[adds[g].url]].Chats

\* the calls of update() whose sender goroutine has a message to hand to
\* bot.Send
Sending == {n \in Cycles : sender[n] = "range" /\ sends[n] # <<>>}

\* C15: at every moment at most one sender goroutine is sending poll-cycle
\* messages to the transport, and no channel holds more than 16 messages.
C15_OneSender ==
    /\ Cardinality(Sending) <= 1
    /\ \A n \in Cycles : Len(sends[n]) <= SendsCap

\* C16: every poll cycle that has started terminates: update() returns.
C16_CycleTerminates ==
    \A n \in 1..MaxCycles :
        (n \in Cycles) ~> (n \in Cycles /\ cyc[n].pc = "returned")

\* C17: when a per-feed goroutine has fetched an item that has neither a
\* published nor an updated timestamp, the process keeps running.
C17_UntimedItemContained ==
    (\E n \in Cycles : \E u \in DOMAIN tasks[n] : \E i \in 1..Len(tasks[n][u].f) :
        Untimed(tasks[n][u].f[i])) => mpc = "wait"

\* the effective timestamp of an item: updated if present, else published
Effective(it) == (IF it.UpdatedParsed # <<>> THEN it.UpdatedParsed ELSE it.PublishedParsed)[1]

\* x comes before y in time, or at the same instant with the lesser title
Chronological(x, y) ==
    \/ Effective(x).m < Effective(y).m
    \/ Effective(x).m = Effective(y).m /\ StrLess(x.Title, y.Title)

\* C18: for every two items of a fetched feed the order of their keys is the
\* chronological order of their effective timestamps, ties broken by title,
\* whatever the zone offsets; and every queued item has an effective
\* timestamp not older than now minus 192 hours.
C18_KeyOrderChronological ==
    \A n \in Cycles : \A u \in DOMAIN tasks[n] :
        LET t == tasks[n][u] IN
        /\ \A i, j \in 1..Len(t.f) :
              QLess([a |-> ItemKey(t.f[i])], [a |-> ItemKey(t.f[j])])
                  <=> Chronological(t.f[i], t.f[j])
        /\ \A m \in Queued(n) : \A i \in 1..Len(t.f) :
              (m.url = u /\ t.f[i].Link = m.Text)
                  => Effective(t.f[i]).m >= now - CutoffHours * 60

\* C19: a channel is closed only when update() returns, after every per-feed
\* goroutine of that call has returned, so no goroutine is left to send on
\* it and no send on a closed channel panics, also when calls overlap.
C19_NoSendOnClosed ==
    /\ mpc # "panic"
    /\ \A n \in Cycles :
          /\ cyc[n].closed <=> cyc[n].pc = "returned"
          /\ cyc[n].closed => \A u \in DOMAIN tasks[n] : tasks[n][u].pc = "done"
          /\ \A m \in InChannel(n) \cup Handed(n) : m.url \in DOMAIN tasks[n]

\* a call of update() has closed its channel after queueing a message while
\* a goroutine of another call is about to send on its own channel
C19_Witness ==
    \E n, k \in Cycles :
        /\ n # k
        /\ cyc[n].closed
        /\ Handed(n) \cup InChannel(n) # {}
        /\ ~cyc[k].closed
        /\ \E u \in DOMAIN tasks[k] : tasks[k][u].pc = "send"
\* chat c was no subscriber of any feed when cycle n began
Unsubscribed(n, c) == \A u \in DOMAIN tasks[n] : c \notin cyc[n].chats0[u]

\* C20: a poll cycle that begins when Rm has removed chat c from the feed
\* keyed url (and no Add has put it back) queues no message to c on behalf
\* of url, and the goroutine of url marks nothing seen for c: the seen-set
\* of a chat that no feed of the cycle had as subscriber stays as it was.
C20_RemovedNotServed ==
    \A n \in Cycles : \A c \in ChatIds :
        /\ \A u \in DOMAIN tasks[n] :
              c \notin cyc[n].chats0[u] =>
                  /\ c \notin tasks[n][u].visited
                  /\ \A m \in Queued(n) : ~(m.url = u /\ m.ChatID = c)
        /\ (Unsubscribed(n, c) /\ c \in DOMAIN cyc[n].seen0) =>
              seens[c] = cyc[n].seen0[c]

\* chat 1, a subscriber of url a at the start of the process, was removed
\* before the cycle began; the cycle is over and has sent chat 2 an item of
\* a that chat 1 has not seen
C20_Witness ==
    \E n \in Cycles :
        /\ UrlA \in DOMAIN tasks[n]
        /\ 1 \notin cyc[n].chats0[UrlA]
        /\ cyc[n].pc = "returned"
        /\ sender[n] = "done"
        /\ \E m \in Handed(n) : m.url = UrlA /\ m.ChatID = 2 /\ m.a \notin seens[1]

\* C11: a seen-set never loses a key, whatever command or step of a poll
\* cycle is taken, and a poll cycle queues for a chat no key that was in the
\* chat's seen-set when the cycle began, also when the send of the key's
\* message had failed or the key was not after the cutoff when first seen.
C11_SeenGrowsAndGates ==
    [][/\ \A c \in DOMAIN seens : c \in DOMAIN seens' /\ seens[c] \subseteq seens'[c]
       /\ \A n \in 1..Len(cyc') : \A m \in Queued(n)' :
             m.ChatID \in DOMAIN cyc'[n].seen0 => m.a \notin cyc'[n].seen0[m.ChatID]]_vars

\* after a sub command, a later poll cycle is over that fetched again, and
\* did not queue, a key whose send had failed in an earlier cycle and a key
\* that was not after the cutoff when the earlier cycle marked it
C11_Witness ==
    \E n, k \in Cycles :
        /\ n < k
        /\ adds # <<>>
        /\ cyc[k].pc = "returned"
        /\ Queued(k) = {}
        /\ \E u \in DOMAIN tasks[k] :
              /\ \E i \in 1..Len(sent[n][1]) :
                    /\ sent[n][1][i].err
                    /\ sent[n][1][i].a \in KeysOf(tasks[k][u]) \cap cyc[k].seen0[1]
              /\ \E a \in KeysOf(tasks[k][u]) :
                    /\ ~StrLess(cyc[n].ts, a)
                    /\ a \in cyc[k].seen0[1] \ cyc[n].seen0[1]

====
